---- MODULE Spec2Model ----
(***************************************************************************)
(* sitebacker_probe_ips: main.py.  A linear pipeline: download a PDF,      *)
(* locate the pages of the "IP Probes by Region" table, walk their text    *)
(* lines pairing region names with IPv4/IPv6 tokens, write the result.     *)
(*                                                                         *)
(* Text is modelled character by character: a Python str is a sequence of  *)
(* one-character strings.  Three characters have names: "NL" is the line   *)
(* feed, "EN" is U+2013 (en dash) and "EM" is U+2014 (em dash).            *)
(*                                                                         *)
(* Three specifications share the state:                                   *)
(*   Spec         main, from the return of parse_arguments to the exit,    *)
(*                on documents whose pages are known;                      *)
(*   SpecExtract  one call of extract_ip_probes on an arbitrary document,  *)
(*                page by page and line by line;                           *)
(*   SpecRegex    re.findall(simple_ipv6_pattern, line) on its own.        *)
(*                                                                         *)
(* A document is [len, text, bad, opens, lazy]: len pages; text maps the   *)
(* pages that hold text to it (the others are empty); bad are the pages    *)
(* whose doc[page_num] / get_text() raises; opens says whether fitz.open   *)
(* succeeds.  What PyMuPDF does with given bytes does not change from one  *)
(* call to the next, so these are fields of the document.  A lazy document *)
(* is an arbitrary one: a page's text is chosen when the page is read, and *)
(* an error may strike anywhere.                                           *)
(***************************************************************************)
EXTENDS Integers, Sequences, FiniteSets, TLC

----------------------------------------------------------------------------
(* Characters and str methods                                              *)

UpperChars == <<"A","B","C","D","E","F","G","H","I","J","K","L","M",
                "N","O","P","Q","R","S","T","U","V","W","X","Y","Z">>

LowerChars == <<"a","b","c","d","e","f","g","h","i","j","k","l","m",
                "n","o","p","q","r","s","t","u","v","w","x","y","z">>

Digits == {"0","1","2","3","4","5","6","7","8","9"}

\* str.isdigit() of one character
IsDigit(c) == c \in Digits

\* [0-9a-fA-F]
IsHex(c) == c \in Digits \cup {"a","b","c","d","e","f","A","B","C","D","E","F"}

\* \w of the re module: letters, digits, underscore
IsWordChar(c) ==
    \/ c \in Digits
    \/ c = "_"
    \/ \E i \in 1..26 : c = UpperChars[i] \/ c = LowerChars[i]

\* str.lower() of one character
LowerChar(c) ==
    IF \E i \in 1..26 : c = UpperChars[i]
    THEN LowerChars[CHOOSE i \in 1..26 : c = UpperChars[i]]
    ELSE c

\* str.lower()
Lower(s) == [i \in 1..Len(s) |-> LowerChar(s[i])]

\* s[a-1:b] of Python: the characters a..b (1-based), cut to what s has
Slice(s, a, b) ==
    LET lo == IF a < 1 THEN 1 ELSE a
        hi == IF b > Len(s) THEN Len(s) ELSE b
    IN  IF lo > hi THEN <<>> ELSE SubSeq(s, lo, hi)

\* sub in s
Contains(s, sub) ==
    \E i \in 1..(Len(s) - Len(sub) + 1) : SubSeq(s, i, i + Len(sub) - 1) = sub

\* whitespace as str.strip() sees it (line feeds are gone after split)
IsSpace(c) == c \in {" ", "TAB"}

\* str.strip()
Strip(s) ==
    LET keep == {i \in 1..Len(s) : ~IsSpace(s[i])}
    IN  IF keep = {} THEN <<>>
        ELSE LET lo == CHOOSE i \in keep : \A j \in keep : i <= j
                 hi == CHOOSE i \in keep : \A j \in keep : j <= i
             IN  SubSeq(s, lo, hi)

\* str.split(sep) for a one-character separator: always at least one piece
RECURSIVE Split(_, _)
Split(s, sep) ==
    IF \A i \in 1..Len(s) : s[i] # sep THEN <<s>>
    ELSE LET k == CHOOSE i \in 1..Len(s) :
                      s[i] = sep /\ \A j \in 1..(i - 1) : s[j] # sep
         IN  <<SubSeq(s, 1, k - 1)>> \o Split(SubSeq(s, k + 1, Len(s)), sep)

\* int() of a string of decimal digits
RECURSIVE ToInt(_)
ToInt(s) ==
    IF Len(s) = 0 THEN 0
    ELSE 10 * ToInt(SubSeq(s, 1, Len(s) - 1))
         + (CHOOSE d \in 0..9 : <<"0","1","2","3","4","5","6","7","8","9">>[d + 1] = s[Len(s)])

\* the elements of a list, in order, that are not in another list
RECURSIVE NotIn(_, _)
NotIn(xs, ys) ==
    IF xs = <<>> THEN <<>>
    ELSE (IF \E j \in 1..Len(ys) : ys[j] = xs[1] THEN <<>> ELSE <<xs[1]>>)
         \o NotIn(Tail(xs), ys)

----------------------------------------------------------------------------
(* The two address patterns and re.findall                                 *)

\* \b at the gap before position i (1..Len(s)+1)
WordBoundary(s, i) ==
    LET w(j) == j >= 1 /\ j <= Len(s) /\ IsWordChar(s[j])
    IN  w(i - 1) # w(i)

\* 25[0-5]|2[0-4][0-9]|[01]?[0-9][0-9]?  applied to a run of digits d
OctetOk(d) ==
    \/ Len(d) = 3 /\ d[1] = "2" /\ d[2] = "5" /\ d[3] \in {"0","1","2","3","4","5"}
    \/ Len(d) = 3 /\ d[1] = "2" /\ d[2] \in {"0","1","2","3","4"}
    \/ Len(d) = 3 /\ d[1] \in {"0","1"}
    \/ Len(d) \in {1, 2}

\* the lengths the octet alternation can consume at position i
OctetLens(s, i) ==
    {n \in 1..3 : /\ i + n - 1 <= Len(s)
                  /\ \A j \in i..(i + n - 1) : IsDigit(s[j])
                  /\ OctetOk(SubSeq(s, i, i + n - 1))}

\* ends (exclusive) of (?:octet\.){k-1}octet\b started at position i
RECURSIVE Ipv4Ends(_, _, _)
Ipv4Ends(s, i, k) ==
    IF k = 1
    THEN {i + n : n \in {m \in OctetLens(s, i) : WordBoundary(s, i + m)}}
    ELSE UNION {Ipv4Ends(s, i + n + 1, k - 1) :
                  n \in {m \in OctetLens(s, i) : i + m <= Len(s) /\ s[i + m] = "."}}

\* the end (exclusive) of ipv4_pattern matched at position i, 0 when it does
\* not match there.  The trailing \b leaves at most one end per start.
Ipv4End(s, i) ==
    IF WordBoundary(s, i) /\ Ipv4Ends(s, i, 4) # {}
    THEN CHOOSE e \in Ipv4Ends(s, i, 4) : TRUE
    ELSE 0

Ipv6Prefix == <<"2","6","1","0",":","a","1",":">>

Ipv6Middle == <<":","1","2","8",":",":">>

\* [0-9a-fA-F]{4}: the third group is exactly this many hex digits
Ipv6GroupLen == 4

\* [0-9a-fA-F]{1,3}: the last group
Ipv6TailMin == 1

Ipv6TailMax == 3

\* how many of the characters from position i on are hex digits, up to max
RECURSIVE HexRun(_, _, _)
HexRun(s, i, max) ==
    IF max = 0 \/ i > Len(s) \/ ~IsHex(s[i]) THEN 0
    ELSE 1 + HexRun(s, i + 1, max - 1)

\* a third group of one to four hex digits, as many as there are
Ipv6GroupEndUpTo(s, i) ==
    IF HexRun(s, i, Ipv6GroupLen) >= 1 THEN i + HexRun(s, i, Ipv6GroupLen) ELSE 0

\* the third group of simple_ipv6_pattern at position i: where it ends
\* (exclusive), 0 when it does not match
Ipv6GroupEnd(s, i) ==
    IF HexRun(s, i, Ipv6GroupLen) = Ipv6GroupLen THEN i + Ipv6GroupLen ELSE 0

\* the end (exclusive) of simple_ipv6_pattern matched at position i, 0 when
\* it does not match there.  Nothing follows the greedy last group, so the
\* match takes every hex digit it can, up to three.
Ipv6End(s, i) ==
    LET g == i + Len(Ipv6Prefix)
        m == Ipv6GroupEnd(s, g)
        t == m + Len(Ipv6Middle)
    IN  IF /\ Slice(s, i, g - 1) = Ipv6Prefix
           /\ m # 0
           /\ Slice(s, m, t - 1) = Ipv6Middle
           /\ HexRun(s, t, Ipv6TailMax) >= Ipv6TailMin
        THEN t + HexRun(s, t, Ipv6TailMax)
        ELSE 0

\* re.findall: leftmost matches, left to right, not overlapping
RECURSIVE FindAllIpv4(_, _)
FindAllIpv4(s, i) ==
    IF i > Len(s) THEN <<>>
    ELSE LET e == Ipv4End(s, i)
         IN  IF e = 0 THEN FindAllIpv4(s, i + 1)
             ELSE <<SubSeq(s, i, e - 1)>> \o FindAllIpv4(s, e)

RECURSIVE FindAllIpv6(_, _)
FindAllIpv6(s, i) ==
    IF i > Len(s) THEN <<>>
    ELSE LET e == Ipv6End(s, i)
         IN  IF e = 0 THEN FindAllIpv6(s, i + 1)
             ELSE <<SubSeq(s, i, e - 1)>> \o FindAllIpv6(s, e)

----------------------------------------------------------------------------
(* extract_ip_probes: the pieces of its loop body                          *)

\* an anchor that is any of the phrases the page search may use
AnchorPhraseLoose == <<"p","r","o","b","e">>

\* "ip probes by region", the phrase that switches extraction on
AnchorPhrase ==
    <<"i","p"," ","p","r","o","b","e","s"," ","b","y"," ","r","e","g","i","o","n">>

ExcludeFromRegions ==
    << <<"i","p"," ","p","r","o","b","e","s"," ","b","y"," ","r","e","g","i","o","n">>,
       <<"a","v","a","i","l","a","b","l","e">>,
       <<"2","0","1","9">>,
       <<"i","p","v","4">>,
       <<"i","p","v","6">>,
       <<"r","e","g","i","o","n">>,
       <<"t","a","b","l","e">>,
       <<"p","a","g","e">>,
       <<"u","l","t","r","a","d","n","s">>,
       <<"c","o","n","f","i","d","e","n","t","i","a","l">> >>

\* current_region = None.  None and "" are both falsy, and the cursor is
\* never set to "" (a region name is longer than one character).
None == <<>>

\* any(exclude in line_lower for exclude in exclude_from_regions)
Excluded(line_lower) ==
    \E k \in 1..Len(ExcludeFromRegions) : Contains(line_lower, ExcludeFromRegions[k])

\* normalize_region_name
NormalizeRegionName(region_name) ==
    [i \in 1..Len(region_name) |->
        IF region_name[i] \in {"EN", "EM"} THEN "-" ELSE region_name[i]]

\* [ip for ip in addresses if ip not in have]: the filter reads the list as
\* it is before extend() changes it
NewAddresses(addresses, have) == NotIn(addresses, have)

\* the body of "if current_region:": merge the addresses of a data line into
\* the entry of the region, or append a new entry
MergeRegion(data, region, ipv4_addresses, ipv6_addresses) ==
    LET normalized_region == NormalizeRegionName(region)
        hits == {k \in 1..Len(data) : data[k].region = normalized_region}
    IN  IF hits # {}
        THEN LET k == CHOOSE h \in hits : \A g \in hits : h <= g
             IN  [data EXCEPT
                    ![k].ipv4 = @ \o NewAddresses(ipv4_addresses, @),
                    ![k].ipv6 = @ \o NewAddresses(ipv6_addresses, @)]
        ELSE Append(data, [region |-> normalized_region,
                           ipv4   |-> ipv4_addresses,
                           ipv6   |-> ipv6_addresses])

\* a region-name test that forgets the length and the leading digit
IsRegionNameAnyLine(ln) == ~Excluded(Lower(ln))

\* a region-name test that forgets the length
IsRegionNameNoLength(ln) == ~IsDigit(ln[1]) /\ ~Excluded(Lower(ln))

\* len(line) > 1 and not line[0].isdigit() and not any(exclude in ...)
IsRegionName(ln) ==
    Len(ln) > 1 /\ ~IsDigit(ln[1]) /\ ~Excluded(Lower(ln))

\* one pass of "for line in lines" on the stripped line ln: the new
\* extracted_data and current_region
ProcessLine(data, cur, ln) ==
    IF ln = <<>> THEN [data |-> data, cur |-> cur]
    ELSE IF Excluded(Lower(ln)) THEN [data |-> data, cur |-> cur]
    ELSE LET ipv4_addresses == FindAllIpv4(ln, 1)
             ipv6_addresses == FindAllIpv6(ln, 1)
         IN  IF ipv4_addresses # <<>> \/ ipv6_addresses # <<>>
             THEN IF cur # None
                  THEN [data |-> MergeRegion(data, cur, ipv4_addresses, ipv6_addresses),
                        cur  |-> cur]
                  ELSE [data |-> data, cur |-> cur]
             ELSE IF IsRegionName(ln)
                  THEN [data |-> data, cur |-> Strip(ln)]
                  ELSE [data |-> data, cur |-> cur]

\* a flag that is set again from each page's text
InTableSectionReset(flag, page_text) == Contains(Lower(page_text), AnchorPhrase)

\* in_table_section after the check of a page's text
InTableSection(flag, page_text) ==
    flag \/ Contains(Lower(page_text), AnchorPhrase)

\* a bounds check that lets the page after the last one through
PageExistsOffByOne(doc_len, page_num) == ~(page_num > doc_len \/ page_num < 0)

\* not (page_num >= len(doc) or page_num < 0), page_num 0-indexed
PageExists(doc_len, page_num) == ~(page_num >= doc_len \/ page_num < 0)

\* range(a, b) as a list
RECURSIVE Range(_, _)
Range(a, b) == IF a >= b THEN <<>> ELSE <<a>> \o Range(a + 1, b)

\* pages_to_process: a "first-last" string is split and parsed, a list of
\* 1-indexed pages is converted to 0-indexed
PagesToProcess(pgs) ==
    IF pgs.kind = "str"
    THEN LET page_range == Split(pgs.val, "-")
             start_page == ToInt(page_range[1]) - 1
             end_page   == IF Len(page_range) > 1
                           THEN ToInt(page_range[2]) - 1 ELSE start_page
         IN  Range(start_page, end_page + 1)
    ELSE [i \in 1..Len(pgs.val) |-> pgs.val[i] - 1]

\* an except clause that returns what was accumulated
ExceptReturnPartial(data) == data

\* except Exception: return []
ExceptReturn(data) == <<>>

----------------------------------------------------------------------------
(* Documents and page texts                                                *)

LineAnchor == <<"I","P"," ","P","r","o","b","e","s"," ","b","y"," ","R","e","g","i","o","n">>

LineStop == <<"I","P","v","4"," ","T","a","b","l","e">>

LineEU == <<"E","U">>

LineEnDash == <<"A","EN","B">>

LineHyphen == <<"A","-","B">>

LineDup == <<"1",".","1",".","1",".","1"," ","1",".","1",".","1",".","1">>

LineMix == <<" ","1",".","1",".","1",".","1"," ","2","6","1","0",":","a","1",":",
             "0","0","A","A",":","1","2","8",":",":","1">>

LineDigit == <<"7","x">>

LineOne == <<"X">>

LineProbes == <<"P","r","o","b","e","s"," ","b","y"," ","R","e","g","i","o","n">>

LineProbe == <<"p","r","o","b","e">>

\* the lines a page of an arbitrary document is made of
Corpus == {LineAnchor, LineStop, LineEU, LineEnDash,
           LineDup, LineMix, LineDigit, LineOne}

\* "\n".join(ls)
RECURSIVE Join(_)
Join(ls) ==
    IF ls = <<>> THEN <<>>
    ELSE IF Len(ls) = 1 THEN ls[1]
    ELSE ls[1] \o <<"NL">> \o Join(Tail(ls))

\* most lines of a page
MaxLines == 2

\* most pages of an arbitrary document
MaxPages == 2

\* page.get_text() of an arbitrary page: up to MaxLines lines of the corpus
PageTexts == UNION {{Join(ls) : ls \in [1..k -> Corpus]} : k \in 0..MaxLines}

\* a set of page numbers as an increasing list
RECURSIVE Sorted(_)
Sorted(S) ==
    IF S = {} THEN <<>>
    ELSE LET m == CHOOSE x \in S : \A y \in S : x <= y
         IN  <<m>> \o Sorted(S \ {m})

VARIABLES
    pc,                 \* where the program is
    doc,                \* the PDF: [len, text, bad, opens, lazy]
    pages,              \* extract_ip_probes' argument: [kind, val]
    pages_to_process,   \* what is left of the page loop, 0-indexed
    lines,              \* what is left of the line loop
    line,               \* the stripped line last processed
    extracted_data, current_region, in_table_section,
    ret,                \* what extract_ip_probes returned
    raised,             \* history: the except clause of extract_ip_probes ran
    anchor_seen,        \* history: a page read so far contains the anchor
    visited,            \* history: pages read by extract_ip_probes (1-indexed)
    skipped,            \* history: pages skipped with the warning (1-indexed)
    pdf_content,        \* what download_pdf_from_url returned
    table_pages,        \* main's table_pages
    searches,           \* history: how many find_table_pages calls were made
    first_found,        \* history: what the first find_table_pages call returned
    find_raised,        \* history: the except clause of find_table_pages ran
    ip_probes_data,     \* main's ip_probes_data
    output,             \* how output_data ended: "stdout", "saved", "save_failed"
    exit_code,          \* the process exit status, -1 while it runs
    subject, tokens     \* a line and re.findall(simple_ipv6_pattern, line)

vars == <<pc, doc, pages, pages_to_process, lines, line, extracted_data,
          current_region, in_table_section, ret, raised, anchor_seen, visited,
          skipped, pdf_content, table_pages, searches, first_found, find_raised,
          ip_probes_data, output, exit_code, subject, tokens>>

extractVars == <<pages_to_process, lines, line, extracted_data, current_region,
                 in_table_section, ret, raised, anchor_seen, visited, skipped>>

mainVars == <<pdf_content, table_pages, searches, first_found, find_raised,
              ip_probes_data, output, exit_code>>

regexVars == <<subject, tokens>>

\* page.get_text() of page p (1-indexed).  A lazy document is an arbitrary
\* one: the text of a page is any page text, chosen when the page is read.
TextsAt(p) ==
    IF doc.lazy THEN PageTexts
    ELSE {IF p \in DOMAIN doc.text THEN doc.text[p] ELSE <<>>}

ExtractInit ==
    /\ pages_to_process = <<>>
    /\ lines = <<>>
    /\ line = <<>>
    /\ extracted_data = <<>>
    /\ current_region = None
    /\ in_table_section = FALSE
    /\ ret = <<>>
    /\ raised = FALSE
    /\ anchor_seen = FALSE
    /\ visited = {}
    /\ skipped = {}

MainInit ==
    /\ pdf_content = "none"
    /\ table_pages = <<>>
    /\ searches = 0
    /\ first_found = <<>>
    /\ find_raised = FALSE
    /\ ip_probes_data = <<>>
    /\ output = "none"
    /\ exit_code = -1

RegexInit ==
    /\ subject = <<>>
    /\ tokens = <<>>

\* lines 109-146: the page list, fitz.open, the empty accumulators
ExtractBegin ==
    /\ pc = "extract_begin"
    /\ IF doc.opens
       THEN /\ pages_to_process' = PagesToProcess(pages)
            /\ pc' = "extract_loop"
            /\ UNCHANGED <<ret, raised>>
       ELSE /\ ret' = ExceptReturn(extracted_data)
            /\ raised' = TRUE
            /\ pc' = "extract_done"
            /\ UNCHANGED pages_to_process
    /\ UNCHANGED <<doc, pages, lines, line, extracted_data, current_region,
                   in_table_section, anchor_seen, visited, skipped>>
    /\ UNCHANGED <<mainVars, regexVars>>

\* lines 149-166: one pass of "for page_num in pages_to_process" up to the
\* line loop
ExtractPage ==
    /\ pc = "extract_loop"
    /\ pages_to_process # <<>>
    /\ LET page_num == Head(pages_to_process)
       IN  /\ pages_to_process' = Tail(pages_to_process)
           /\ IF ~PageExists(doc.len, page_num)
              THEN /\ skipped' = skipped \cup {page_num + 1}
                   /\ pc' = "extract_loop"
                   /\ UNCHANGED <<lines, in_table_section, anchor_seen,
                                  visited, ret, raised>>
              ELSE IF page_num + 1 > doc.len \/ page_num + 1 \in doc.bad
              THEN \* doc[page_num] or get_text() raises
                   /\ ret' = ExceptReturn(extracted_data)
                   /\ raised' = TRUE
                   /\ pc' = "extract_done"
                   /\ UNCHANGED <<lines, in_table_section, anchor_seen,
                                  visited, skipped>>
              ELSE \E t \in TextsAt(page_num + 1) :
                   /\ visited' = visited \cup {page_num + 1}
                   /\ anchor_seen' = (anchor_seen \/ Contains(Lower(t), AnchorPhrase))
                   /\ in_table_section' = InTableSection(in_table_section, t)
                   /\ IF in_table_section'
                      THEN lines' = Split(t, "NL") /\ pc' = "extract_lines"
                      ELSE lines' = <<>> /\ pc' = "extract_loop"
                   /\ UNCHANGED <<skipped, ret, raised>>
    /\ UNCHANGED <<doc, pages, line, extracted_data, current_region>>
    /\ UNCHANGED <<mainVars, regexVars>>

\* lines 169-207: one pass of "for line in lines"
ExtractLine ==
    /\ pc = "extract_lines"
    /\ lines # <<>>
    /\ LET ln  == Strip(Head(lines))
           out == ProcessLine(extracted_data, current_region, ln)
       IN  /\ line' = ln
           /\ extracted_data' = out.data
           /\ current_region' = out.cur
    /\ lines' = Tail(lines)
    /\ pc' = IF Tail(lines) = <<>> THEN "extract_loop" ELSE "extract_lines"
    /\ UNCHANGED <<doc, pages, pages_to_process, in_table_section, ret,
                   raised, anchor_seen, visited, skipped>>
    /\ UNCHANGED <<mainVars, regexVars>>

\* lines 209-212: doc.close(); return extracted_data
ExtractReturn ==
    /\ pc = "extract_loop"
    /\ pages_to_process = <<>>
    /\ ret' = extracted_data
    /\ pc' = "extract_done"
    /\ UNCHANGED <<doc, pages, pages_to_process, lines, line, extracted_data,
                   current_region, in_table_section, raised, anchor_seen, visited,
                   skipped>>
    /\ UNCHANGED <<mainVars, regexVars>>

\* lines 213-215: an unexpected error anywhere inside the try block, on an
\* arbitrary document (on a known one the errors are those of its pages)
ExtractRaise ==
    /\ pc \in {"extract_begin", "extract_loop", "extract_lines"}
    /\ doc.lazy
    /\ ret' = ExceptReturn(extracted_data)
    /\ raised' = TRUE
    /\ pc' = "extract_done"
    /\ UNCHANGED <<doc, pages, pages_to_process, lines, line, extracted_data,
                   current_region, in_table_section, anchor_seen, visited, skipped>>
    /\ UNCHANGED <<mainVars, regexVars>>

\* extract_ip_probes on an arbitrary document of up to MaxPages pages, with
\* an increasing list of pages that may run past the end of the document
InitExtract ==
    /\ pc = "extract_begin"
    /\ doc \in {[len |-> n, text |-> <<>>, bad |-> {}, opens |-> TRUE, lazy |-> TRUE] :
                  n \in 0..MaxPages}
    /\ pages = [kind |-> "list", val |-> Range(1, MaxPages + 2)]
    /\ ExtractInit
    /\ MainInit
    /\ RegexInit

NextExtract ==
    \/ ExtractBegin
    \/ ExtractPage
    \/ ExtractLine
    \/ ExtractReturn
    \/ ExtractRaise

SpecExtract == InitExtract /\ [][NextExtract]_vars

----------------------------------------------------------------------------
(* find_table_pages and main                                               *)

\* the search terms main tries, in order
SearchTerms ==
    << <<"I","P"," ","P","r","o","b","e","s"," ","b","y"," ","R","e","g","i","o","n">>,
       <<"P","r","o","b","e","s"," ","b","y"," ","R","e","g","i","o","n">>,
       <<"P","r","o","b","e">> >>

\* end_page=300 of main's three find_table_pages calls
EndPage == 300

\* the page range main falls back to: "202-203"
FallbackPages == <<"2","0","2","-","2","0","3">>

\* page.get_text() of page p (1-indexed) of a document whose pages are known
PageText(d, p) == IF p \in DOMAIN d.text THEN d.text[p] ELSE <<>>

Min(a, b) == IF a <= b THEN a ELSE b

\* the 0-indexed pages find_table_pages loops over: range(start_page - 1, end_page)
\* with end_page = min(end_page, len(doc))
ScannedPages(d, start_page, end_page) ==
    (start_page - 1)..(Min(end_page, d.len) - 1)

\* the try block of find_table_pages raises: the document does not open, or
\* a page of the loop cannot be read
ScanRaises(d, start_page, end_page) ==
    \/ ~d.opens
    \/ \E p \in ScannedPages(d, start_page, end_page) : p + 1 \in d.bad

\* a page loop that starts at range(start_page, ...): the first page is missed
FindTablePagesFromSecond(d, search_term, start_page, end_page) ==
    IF ScanRaises(d, start_page, end_page) THEN <<>>
    ELSE Sorted({p + 1 : p \in {q \in ScannedPages(d, start_page + 1, end_page) :
                    Contains(Lower(PageText(d, q + 1)), Lower(search_term))}})

\* find_table_pages: the 1-indexed pages whose text contains the term, or []
\* from the except clause
FindTablePages(d, search_term, start_page, end_page) ==
    IF ScanRaises(d, start_page, end_page) THEN <<>>
    ELSE Sorted({p + 1 : p \in {q \in ScannedPages(d, start_page, end_page) :
                    Contains(Lower(PageText(d, q + 1)), Lower(search_term))}})

\* the argument of main's extract_ip_probes call
ExtractArgument(found) ==
    IF found # <<>> THEN [kind |-> "list", val |-> found]
    ELSE [kind |-> "str", val |-> FallbackPages]

\* an exit status that reports a failed save
ExitStatusChecksSave(data, out) ==
    IF data # <<>> /\ out # "save_failed" THEN 0 ELSE 1

\* the exit status main ends with once ip_probes_data is known; how
\* output_data ended has no part in it
ExitStatus(data, out) == IF data # <<>> THEN 0 ELSE 1

\* lines 301-305: the download, and the exit when nothing came back
MainDownload ==
    /\ pc = "download"
    /\ \E r \in {"error", "empty", "ok"} :
         /\ pdf_content' = r
         /\ IF r = "ok"
            THEN pc' = "find1" /\ UNCHANGED exit_code
            ELSE pc' = "exit" /\ exit_code' = 1
    /\ UNCHANGED <<doc, pages, extractVars, table_pages, searches, first_found,
                   find_raised, ip_probes_data, output, regexVars>>

\* line 308
MainFind1 ==
    /\ pc = "find1"
    /\ table_pages' = FindTablePages(doc, SearchTerms[1], 1, EndPage)
    /\ first_found' = table_pages'
    /\ find_raised' = ScanRaises(doc, 1, EndPage)
    /\ searches' = 1
    /\ pc' = "find2"
    /\ UNCHANGED <<doc, pages, extractVars, pdf_content, ip_probes_data, output,
                   exit_code, regexVars>>

\* lines 310-312
MainFind2 ==
    /\ pc = "find2"
    /\ IF table_pages = <<>>
       THEN /\ table_pages' = FindTablePages(doc, SearchTerms[2], 1, EndPage)
            /\ searches' = 2
       ELSE UNCHANGED <<table_pages, searches>>
    /\ pc' = "find3"
    /\ UNCHANGED <<doc, pages, extractVars, pdf_content, first_found, find_raised,
                   ip_probes_data, output, exit_code, regexVars>>

\* lines 314-316
MainFind3 ==
    /\ pc = "find3"
    /\ IF table_pages = <<>>
       THEN /\ table_pages' = FindTablePages(doc, SearchTerms[3], 1, EndPage)
            /\ searches' = 3
       ELSE UNCHANGED <<table_pages, searches>>
    /\ pc' = "call"
    /\ UNCHANGED <<doc, pages, extractVars, pdf_content, first_found, find_raised,
                   ip_probes_data, output, exit_code, regexVars>>

\* lines 319-329: the call of extract_ip_probes (print_pdf_content changes
\* nothing)
MainCallExtract ==
    /\ pc = "call"
    /\ pages' = ExtractArgument(table_pages)
    /\ pc' = "extract_begin"
    /\ UNCHANGED <<doc, extractVars, mainVars, regexVars>>

\* lines 324/329 and 332-336: the result, the output, the exit
MainOutput ==
    /\ pc = "extract_done"
    /\ ip_probes_data' = ret
    /\ \E out \in {"stdout", "saved", "save_failed"} :
         /\ output' = IF ret # <<>> THEN out ELSE "none"
         /\ exit_code' = ExitStatus(ret, out)
    /\ pc' = "exit"
    /\ UNCHANGED <<doc, pages, extractVars, pdf_content, table_pages, searches,
                   first_found, find_raised, regexVars>>

TextTable == Join(<<LineAnchor, LineEU, LineMix>>)

TextProbes == Join(<<LineProbes, LineEU, LineMix>>)

TextProbe == Join(<<LineProbe, LineMix>>)

TextData == Join(<<LineEU, LineMix>>)

\* the page texts of the documents main runs on
MainTexts == {TextTable, TextProbes, TextProbe, TextData, LineAnchor}

\* the lengths of those documents, and the pages that may hold text: around
\* the fallback range and around end_page
DocLens == {2, 202, 203, 301}

Positions == {1, 2, 202, 203, 300, 301}

\* most pages of a document that hold text (the others are empty)
MaxWritten == 2

\* the pages that cannot be read, if any
BadChoices(n) == {{}} \cup {{p} : p \in {1, 202} \cap 1..n}

MainDocs ==
    UNION {UNION {UNION {
        {[len |-> n, text |-> f, bad |-> b, opens |-> TRUE, lazy |-> FALSE] :
            f \in [W -> MainTexts]} :
          b \in BadChoices(n)} :
          W \in {V \in SUBSET (Positions \cap 1..n) : Cardinality(V) <= MaxWritten}} :
          n \in DocLens}
    \cup {[len |-> 0, text |-> <<>>, bad |-> {}, opens |-> FALSE, lazy |-> FALSE]}

Init ==
    /\ pc = "download"
    /\ doc \in MainDocs
    /\ pages = [kind |-> "list", val |-> <<>>]
    /\ ExtractInit
    /\ MainInit
    /\ RegexInit

Next ==
    \/ MainDownload
    \/ MainFind1
    \/ MainFind2
    \/ MainFind3
    \/ MainCallExtract
    \/ ExtractBegin
    \/ ExtractPage
    \/ ExtractLine
    \/ ExtractReturn
    \/ MainOutput

Spec == Init /\ [][Next]_vars

----------------------------------------------------------------------------
(* re.findall(simple_ipv6_pattern, line) on its own                        *)

\* most characters of the third group and of the last group of a line built
\* after the vendor's shape
MaxGroupDigits == 5

MaxTailDigits == 4

\* all sequences of up to n elements of A
SeqsUpTo(A, n) == UNION {[1..k -> A] : k \in 0..n}

\* lines built after the shape 2610:a1:XXXX:128::Y, right and wrong in every
\* part, and the three lines the documentation names
Ipv6Lines ==
    {lead \o pre \o g \o mid \o y :
        lead \in {<<>>, <<"x">>},
        pre \in {Ipv6Prefix, <<"2","6","1","0",":","A","1",":">>,
                 <<"2","0","0","1",":","d","b","8",":">>},
        g \in SeqsUpTo({"F", "g"}, MaxGroupDigits),
        mid \in {Ipv6Middle, <<":","1","2","8",":">>},
        y \in SeqsUpTo({"7", "g"}, MaxTailDigits)}
    \cup {<<"2","6","1","0",":","a","1",":","0","4","F","2",":","1","2","8",":",":","7">>,
          <<"2","6","1","0",":","a","1",":","4","F","2",":","1","2","8",":",":","7">>,
          <<"2","0","0","1",":","d","b","8",":",":","1">>}

\* line 181
RegexFindAll ==
    /\ pc = "regex"
    /\ tokens' = FindAllIpv6(subject, 1)
    /\ pc' = "regex_done"
    /\ UNCHANGED <<doc, pages, extractVars, mainVars, subject>>

InitRegex ==
    /\ pc = "regex"
    /\ doc = [len |-> 0, text |-> <<>>, bad |-> {}, opens |-> TRUE, lazy |-> TRUE]
    /\ pages = [kind |-> "list", val |-> <<>>]
    /\ ExtractInit
    /\ MainInit
    /\ subject \in Ipv6Lines
    /\ tokens = <<>>

NextRegex == RegexFindAll

SpecRegex == InitRegex /\ [][NextRegex]_vars

----------------------------------------------------------------------------
(* Properties                                                              *)

\* a list holds no element twice
NoDuplicates(xs) == \A i, j \in 1..Len(xs) : i # j => xs[i] # xs[j]

\* every element of xs is an element of ys
AllIn(xs, ys) == \A i \in 1..Len(xs) : \E j \in 1..Len(ys) : ys[j] = xs[i]

\* a step of the line loop, and the stripped line it processes
LineStep == pc = "extract_lines" /\ pc' \in {"extract_lines", "extract_loop"}

ThisLine == Strip(Head(lines))

HasTokens(ln) == FindAllIpv4(ln, 1) # <<>> \/ FindAllIpv6(ln, 1) # <<>>

Survives(ln) == ln # <<>> /\ ~Excluded(Lower(ln))

\* C1: in every state of extract_ip_probes no two entries of the result have
\* the same region name, and no ipv4 or ipv6 list of an entry holds the same
\* address twice.
C1_NoDuplicateRegionsOrAddresses ==
    /\ \A i, j \in 1..Len(extracted_data) :
         i # j => extracted_data[i].region # extracted_data[j].region
    /\ \A i \in 1..Len(extracted_data) :
         NoDuplicates(extracted_data[i].ipv4) /\ NoDuplicates(extracted_data[i].ipv6)

\* C2: the flag is set exactly when a page read so far contains the anchor
\* phrase and is never reset; while it is unset no step changes the result or
\* the cursor and no line is processed; a page read while it is set (by that
\* page or an earlier one) has all its lines queued for the line loop.
C2_AnchorGate ==
    [][/\ in_table_section' = anchor_seen'
       /\ (in_table_section => in_table_section')
       /\ (~in_table_section' =>
             /\ extracted_data' = extracted_data
             /\ current_region' = current_region
             /\ pc' # "extract_lines"
             /\ lines' = <<>>)
       /\ (visited' # visited /\ in_table_section' =>
             /\ pc' = "extract_lines"
             /\ \E t \in TextsAt(Head(pages_to_process) + 1) : lines' = Split(t, "NL"))
      ]_vars

\* C2 witness: two pages were read, the flag is set, and the page whose line
\* loop starts does not contain the anchor phrase.
C2_Witness ==
    /\ pc = "extract_lines"
    /\ in_table_section
    /\ Cardinality(visited) >= 2
    /\ Len(lines) = MaxLines
    /\ \A i \in 1..Len(lines) : ~Contains(Lower(lines[i]), AnchorPhrase)

\* the tokens of a data line are in the entry of the region, which is the last
\* entry when it is new, and no other entry changed
TokensAdded(old, new, region, ipv4_addresses, ipv6_addresses) ==
    \E k \in 1..Len(new) :
        /\ new[k].region = NormalizeRegionName(region)
        /\ AllIn(ipv4_addresses, new[k].ipv4)
        /\ AllIn(ipv6_addresses, new[k].ipv6)
        /\ Len(new) = (IF k <= Len(old) THEN Len(old) ELSE Len(old) + 1)
        /\ \A j \in 1..Len(old) : j # k => new[j] = old[j]

\* what a data line does, the cursor being the current region
DataLineEffect ==
    Survives(ThisLine) /\ HasTokens(ThisLine) =>
        /\ current_region' = current_region
        /\ IF current_region = None
           THEN extracted_data' = extracted_data
           ELSE TokensAdded(extracted_data, extracted_data', current_region,
                            FindAllIpv4(ThisLine, 1), FindAllIpv6(ThisLine, 1))

\* C3 as stated: the current region is the most recently seen line without
\* tokens that passed the stoplist (so every such line becomes the cursor),
\* a data line adds its tokens to the entry of the current region, and without
\* a current region it changes nothing.
C3_Original ==
    [][LineStep =>
         /\ DataLineEffect
         /\ (Survives(ThisLine) /\ ~HasTokens(ThisLine) => current_region' = ThisLine)
      ]_vars

\* C3 amended: the current region is the most recently seen line without
\* tokens that passed the stoplist, is longer than one character and does not
\* start with a digit; a data line adds its tokens to the entry of that region
\* (under its normalized name), and without a current region it changes nothing.
C3_Amended ==
    [][LineStep =>
         /\ DataLineEffect
         /\ (Survives(ThisLine) /\ ~HasTokens(ThisLine) =>
               current_region' = (IF Len(ThisLine) > 1 /\ ~IsDigit(ThisLine[1])
                                  THEN ThisLine ELSE current_region))
         /\ (~Survives(ThisLine) => current_region' = current_region)
      ]_vars

\* C3 witness: a data line was processed under the cursor "A<en dash>B" and its
\* tokens are in the entry "A-B".
C3_Witness ==
    /\ pc \in {"extract_lines", "extract_loop"}
    /\ HasTokens(line)
    /\ current_region = LineEnDash
    /\ \E k \in 1..Len(extracted_data) :
         /\ extracted_data[k].region = LineHyphen
         /\ AllIn(FindAllIpv4(line, 1), extracted_data[k].ipv4)
         /\ AllIn(FindAllIpv6(line, 1), extracted_data[k].ipv6)

\* C9: a line without address tokens replaces the cursor if and only if it is
\* longer than one character, does not start with a digit and contains no
\* stoplist substring; any other line without tokens leaves the cursor
\* unchanged; and no line without tokens changes the result.
C9_RegionLine ==
    [][LineStep /\ ~HasTokens(ThisLine) =>
         /\ extracted_data' = extracted_data
         /\ IF /\ Len(ThisLine) > 1
               /\ ~IsDigit(ThisLine[1])
               /\ ~Excluded(Lower(ThisLine))
            THEN current_region' = ThisLine
            ELSE current_region' = current_region
      ]_vars

\* C9 witness: the stoplist line "IPv4 Table" was processed after a region
\* had collected addresses, and the cursor is still that region.
C9_Witness ==
    /\ pc \in {"extract_lines", "extract_loop"}
    /\ line = LineStop
    /\ current_region = LineEU
    /\ \E k \in 1..Len(extracted_data) : extracted_data[k].region = LineEU

\* C8: when the except clause of extract_ip_probes ran, whatever was
\* accumulated before, the function returned the empty list.
C8_ErrorReturnsEmpty ==
    pc = "extract_done" /\ raised => ret = <<>>

\* C8 witness: the error came after entries had been accumulated.
C8_Witness ==
    pc = "extract_done" /\ raised /\ extracted_data # <<>>

\* the pages among 1..hi whose text contains the k-th search term (a page
\* that holds no text contains none)
PagesWith(d, k, hi) ==
    {p \in DOMAIN d.text :
        p <= hi /\ Contains(Lower(d.text[p]), Lower(SearchTerms[k]))}

\* the first search term that some page among 1..hi contains, 0 if none
FirstTerm(d, hi) ==
    IF \E k \in 1..Len(SearchTerms) : PagesWith(d, k, hi) # {}
    THEN CHOOSE k \in 1..Len(SearchTerms) :
            /\ PagesWith(d, k, hi) # {}
            /\ \A j \in 1..(k - 1) : PagesWith(d, j, hi) = {}
    ELSE 0

\* C4 as stated, for the documents that open and whose pages can all be read:
\* main passes to extraction the pages, among all pages of the document, that
\* contain the first search term some page contains, and has searched no
\* later term.
C4_Original ==
    pc = "extract_begin" /\ doc.opens /\ doc.bad = {} /\ FirstTerm(doc, doc.len) # 0 =>
        /\ pages = [kind |-> "list",
                    val  |-> Sorted(PagesWith(doc, FirstTerm(doc, doc.len), doc.len))]
        /\ searches = FirstTerm(doc, doc.len)

\* C4 amended: a page list main passes to extraction is the set of the pages
\* among the first min(300, N) pages of the document that contain the first
\* search term some of those pages contains; a later term is searched only when
\* every earlier search returned no page.
C4_Amended ==
    LET hi == Min(EndPage, doc.len)
    IN  /\ pc = "extract_begin" /\ pages.kind = "list" =>
              /\ FirstTerm(doc, hi) # 0
              /\ pages.val = Sorted(PagesWith(doc, FirstTerm(doc, hi), hi))
              /\ searches = FirstTerm(doc, hi)
        /\ pc = "extract_begin" /\ pages.kind = "str" =>
              /\ searches = Len(SearchTerms)
              /\ (~find_raised => FirstTerm(doc, hi) = 0)
        /\ pc \in {"find2", "find3", "call"} /\ first_found # <<>> => searches = 1

\* C4 witness: the document is longer than 300 pages, page 301 contains
\* "IP Probes by Region", and the list passed was found by the second term.
C4_Witness ==
    /\ pc = "extract_begin"
    /\ pages.kind = "list"
    /\ searches = 2
    /\ doc.len > EndPage
    /\ (EndPage + 1) \in PagesWith(doc, 1, doc.len)

\* no page of the document contains any search term
NoPhrase(d) == FirstTerm(d, d.len) = 0

\* C5: for a document no page of which contains a search term, extraction is
\* called with the fallback range "202-203"; the pages of the range that the
\* document has are read, the others are skipped, and skipping raises no
\* error (only a page that cannot be read does).
C5_FallbackClamped ==
    pc = "extract_done" /\ doc.opens /\ NoPhrase(doc) =>
        /\ pages = [kind |-> "str", val |-> FallbackPages]
        /\ (~raised =>
              /\ visited = {p \in {202, 203} : p <= doc.len}
              /\ skipped = {p \in {202, 203} : p > doc.len})
        /\ (raised => \E p \in {202, 203} : p <= doc.len /\ p \in doc.bad)

\* C5 witness: a document of 202 pages without any search term: page 202 was
\* read, page 203 was skipped, and extraction returned normally.
C5_Witness ==
    /\ pc = "extract_done"
    /\ NoPhrase(doc)
    /\ doc.len = 202
    /\ visited = {202}
    /\ skipped = {203}
    /\ ~raised

\* C6: a run ends with exit code 1 if and only if nothing was downloaded or
\* the extraction result is empty, and with exit code 0 otherwise, whatever
\* became of the output.
C6_ExitCode ==
    pc = "exit" =>
        /\ exit_code \in {0, 1}
        /\ exit_code = 1 <=> (pdf_content # "ok" \/ ip_probes_data = <<>>)

\* C6 witness: the run ended with exit code 0 although saving the file failed.
C6_Witness ==
    pc = "exit" /\ exit_code = 0 /\ output = "save_failed"

\* C10 as stated: a run ends with exit code 0 only if the first search found a
\* page.
C10_Original ==
    pc = "exit" /\ exit_code = 0 => first_found # <<>>

\* C10 amended: a run ends with exit code 0 only if the first search found a
\* page or find_table_pages failed with an error (and then the data came from
\* the fallback pages); when the first search completes and finds nothing, the
\* extraction is empty and the exit code is 1.
C10_Amended ==
    /\ pc = "exit" /\ exit_code = 0 =>
          \/ first_found # <<>>
          \/ find_raised /\ pages = [kind |-> "str", val |-> FallbackPages]
    /\ pc = "exit" /\ pdf_content = "ok" /\ first_found = <<>> /\ ~find_raised =>
          ip_probes_data = <<>> /\ exit_code = 1

\* C10 witness: the first search completed and found nothing, a later term
\* located pages, and the run ended with exit code 1.
C10_Witness ==
    /\ pc = "exit"
    /\ first_found = <<>>
    /\ ~find_raised
    /\ table_pages # <<>>
    /\ visited # {}
    /\ exit_code = 1

\* t is 2610:a1:XXXX:128::Y with gmin..gmax hex digits XXXX and one to three
\* hex digits Y
HasShape(t, gmin, gmax) ==
    \E n \in gmin..gmax, m \in 1..3 :
        /\ Len(t) = 8 + n + 6 + m
        /\ SubSeq(t, 1, 8) = <<"2","6","1","0",":","a","1",":">>
        /\ \A i \in 9..(8 + n) : IsHex(t[i])
        /\ SubSeq(t, 9 + n, 14 + n) = <<":","1","2","8",":",":">>
        /\ \A i \in (15 + n)..Len(t) : IsHex(t[i])

\* C7 as stated: a token is extracted exactly when it has the shape with one
\* to four hex digits in the third group: every token has it, and a line that
\* has it is extracted whole.
C7_Original ==
    pc = "regex_done" =>
        /\ \A k \in 1..Len(tokens) : HasShape(tokens[k], 1, 4)
        /\ HasShape(subject, 1, 4) <=> tokens = <<subject>>

\* C7 amended: a token is extracted exactly when it has the shape with exactly
\* four hex digits in the third group and one to three in the last: every
\* token has it, and a line that has it is extracted whole; so
\* "2610:a1:04F2:128::7" is extracted, "2610:a1:4F2:128::7" and "2001:db8::1"
\* are not.
C7_Amended ==
    pc = "regex_done" =>
        /\ \A k \in 1..Len(tokens) : HasShape(tokens[k], 4, 4)
        /\ HasShape(subject, 4, 4) <=> tokens = <<subject>>
        /\ subject = <<"2","6","1","0",":","a","1",":","4","F","2",":","1","2","8",":",":","7">>
             => tokens = <<>>
        /\ subject = <<"2","0","0","1",":","d","b","8",":",":","1">> => tokens = <<>>

\* C7 witness: "2610:a1:04F2:128::7" was extracted.
C7_Witness ==
    /\ pc = "regex_done"
    /\ subject = <<"2","6","1","0",":","a","1",":","0","4","F","2",":","1","2","8",":",":","7">>
    /\ tokens = <<subject>>

====
